---- MODULE Spec2Model ----
(***************************************************************************)
(* Model of the fixed-priority schedulability analyzer (rate_monotonic.py) *)
(* and of the discrete-time preemptive schedule simulator                  *)
(* (_generate_schedule_data in task_schedule_visualizer.py).               *)
(*                                                                         *)
(* A Task is a record [period, execution_time, deadline].  A task is       *)
(* identified by its position in the caller's list `tasks` (the Python     *)
(* object identity): an instance's 'task' field and a timeline slot hold   *)
(* that position.  Python index t of execution_timeline and                *)
(* deadline_violations is position t + 1 of the sequences below.           *)
(***************************************************************************)
EXTENDS Integers, Sequences, FiniteSets, TLC

\* Bounds of the explored inputs.
MaxTasks == 2
MaxPeriod == 2
MaxExec == 2
MaxDeadline == 2
MaxCycles == 3
\* The largest deadline of the task sets given to the analyses.
MaxAnalysisDeadline == 3
\* The largest cycle count of a simulation that is run twice.
MaxRerunCycles == 1

\* The largest cycle count of the run to completion.
MaxRunCycles == 2

\* Task(..., deadline=None): the deadline argument left out (or falsy).
NoDeadline == 0
\* The idle slot of execution_timeline (None).
NoTask == 0
\* float('inf') in the response-time sequence.
Inf == -1
\* Task(..., priority=None): the priority argument left out.
NoPriority == 0

VARIABLES
    tasks,                \* the caller's task list (argument tasks)
    lcm_cycles,           \* argument lcm_cycles
    algorithm,            \* argument algorithm: "DM" or "RM"
    time_range,           \* lcm of the periods * lcm_cycles
    tasks_sorted,         \* positions of tasks, in priority order
    execution_timeline,   \* per time unit: the task that ran, or NoTask
    deadline_violations,  \* per time unit: the violation flag
    active_tasks,         \* the list of task instances
    t,                    \* the loop variable of the simulation
    analysis_pc,          \* where the caller of the analyses stands
    raised,               \* the exception an analysis call ended with
    schedulable_bound,    \* verdict of rate_monotonic_check
    sorted_tasks,         \* the period-sorted list given to the analysis
    rta_i,                \* response_time_analysis: i (counted from 1)
    rta_r_new,            \* response_time_analysis: r_new
    rta_r_old,            \* response_time_analysis: r_old
    rta_response_times,   \* response_time_analysis: response_times
    schedulable_rta,      \* verdict of response_time_analysis
    schedulable_deadline, \* verdict of rate_monotonic_check_1
    deadline_response_times, \* rate_monotonic_check_1: response_times
    runs,                 \* calls of _generate_schedule_data made so far
    first_tasks,          \* the task list as the caller built it
    first_timeline,       \* execution_timeline returned by the first call
    first_violations      \* deadline_violations returned by the first call

sim_vars == <<lcm_cycles, algorithm, time_range, tasks_sorted,
              execution_timeline, deadline_violations, active_tasks, t>>

analysis_vars == <<analysis_pc, raised, schedulable_bound, sorted_tasks, rta_i,
                   rta_r_new, rta_r_old, rta_response_times, schedulable_rta,
                   schedulable_deadline, deadline_response_times>>

caller_vars == <<runs, first_tasks, first_timeline, first_violations>>

vars == <<tasks, sim_vars, analysis_vars, caller_vars>>

---------------------------------------------------------------------------
(* Helpers *)

Range(s) == {s[k] : k \in 1..Len(s)}

\* Python's sorted / list.sort: a stable ascending sort of s on keys, where
\* keys[k] is the key of s[k].  The positions of s are inserted one by one,
\* each behind every position whose key is not larger.
RECURSIVE InsertByKey(_, _, _)
InsertByKey(pos, i, keys) ==
    IF pos = <<>> \/ keys[pos[Len(pos)]] <= keys[i]
    THEN Append(pos, i)
    ELSE CHOOSE inserted \in {Append(InsertByKey(front, i, keys), pos[Len(pos)]) :
                                 front \in {SubSeq(pos, 1, Len(pos) - 1)}} : TRUE

RECURSIVE SortedPositions(_, _)
SortedPositions(keys, n) ==
    IF n = 0 THEN <<>>
    ELSE CHOOSE sorted \in {InsertByKey(pos, n, keys) :
                               pos \in {SortedPositions(keys, n - 1)}} : TRUE

Permute(s, pos) == [k \in 1..Len(pos) |-> s[pos[k]]]

StableSort(s, keys) ==
    CHOOSE sorted \in {Permute(s, pos) :
                          pos \in {SortedPositions(k, Len(s)) : k \in {keys}}} : TRUE

RECURSIVE Gcd(_, _)
Gcd(a, b) == IF b = 0 THEN a ELSE Gcd(b, a % b)

\* Lcm with the division by the gcd left out.
Lcm_Product(a, b) == a * b

Lcm(a, b) == (a * b) \div Gcd(a, b)

\* LcmReduce that takes the largest period.
RECURSIVE LcmReduce_Largest(_)
LcmReduce_Largest(periods) ==
    IF Len(periods) = 1 THEN periods[1]
    ELSE IF LcmReduce_Largest(Tail(periods)) > Head(periods)
         THEN LcmReduce_Largest(Tail(periods)) ELSE Head(periods)

\* np.lcm.reduce(periods): a left fold of lcm over the list.
RECURSIVE LcmReduce(_)
LcmReduce(periods) ==
    IF Len(periods) = 1 THEN periods[1]
    ELSE Lcm(LcmReduce(SubSeq(periods, 1, Len(periods) - 1)), periods[Len(periods)])

\* Ceil that rounds down.
Ceil_Floor(a, b) == a \div b

\* np.ceil(a / b) for positive integers.
Ceil(a, b) == (a + b - 1) \div b

---------------------------------------------------------------------------
(* rate_monotonic.py *)

\* Task.__init__: deadline defaults to the period; priority is stored.
TaskInit(period, execution_time, deadline, priority) ==
    [period |-> period,
     execution_time |-> execution_time,
     deadline |-> IF deadline # NoDeadline THEN deadline ELSE period,
     priority |-> priority]

\* Task(period, execution_time, deadline): the priority argument left out.
Task(period, execution_time, deadline) ==
    TaskInit(period, execution_time, deadline, NoPriority)

\* sorted(task_set, key=lambda x: x.period)
SortByPeriod(ts) == StableSort(ts, [k \in 1..Len(ts) |-> ts[k].period])

\* Interference that also counts task i itself.
RECURSIVE Interference_Inclusive(_, _, _, _)
Interference_Inclusive(ts, i, j, r_old) ==
    IF j > i THEN 0
    ELSE Ceil(r_old, ts[j].period) * ts[j].execution_time
         + Interference_Inclusive(ts, i, j + 1, r_old)

\* The interference of the tasks before i over a window r_old.
RECURSIVE Interference(_, _, _, _)
Interference(ts, i, j, r_old) ==
    IF j >= i THEN 0
    ELSE Ceil(r_old, ts[j].period) * ts[j].execution_time
         + Interference(ts, i, j + 1, r_old)

\* RtaIterate with the deadline test taken as r_new >= deadline.
RECURSIVE RtaIterate_AtDeadline(_, _, _)
RtaIterate_AtDeadline(ts, i, r_old) ==
    LET r_new == ts[i].execution_time + Interference(ts, i, 1, r_old)
    IN  IF r_new >= ts[i].deadline THEN Inf
        ELSE IF r_new = r_old THEN r_new
        ELSE RtaIterate_AtDeadline(ts, i, r_new)

\* The while loop of response_time_analysis for task i, entered with r_new:
\* the converged response time, or Inf when it exceeds the deadline.
RECURSIVE RtaIterate(_, _, _)
RtaIterate(ts, i, r_old) ==
    LET r_new == ts[i].execution_time + Interference(ts, i, 1, r_old)
    IN  IF r_new > ts[i].deadline THEN Inf
        ELSE IF r_new = r_old THEN r_new
        ELSE RtaIterate(ts, i, r_new)

\* The for loop of response_time_analysis from task i on, with the response
\* times found so far.
RECURSIVE RtaFrom(_, _, _)
RtaFrom(ts, i, response_times) ==
    IF i > Len(ts) THEN [schedulable |-> TRUE, response_times |-> response_times]
    ELSE LET r == RtaIterate(ts, i, ts[i].execution_time)
         IN  IF r = Inf
             THEN [schedulable |-> FALSE,
                   response_times |-> Append(response_times, Inf)]
             ELSE RtaFrom(ts, i + 1, Append(response_times, r))

response_time_analysis(ts) == RtaFrom(ts, 1, <<>>)

RECURSIVE Power(_, _)
Power(b, e) == IF e = 0 THEN 1 ELSE b * Power(b, e - 1)

\* The product of the deadlines: a common denominator of the utilization.
RECURSIVE DeadlineProduct(_)
DeadlineProduct(ts) ==
    IF ts = <<>> THEN 1 ELSE Head(ts).deadline * DeadlineProduct(Tail(ts))

\* sum(task.execution_time / task.deadline) as a numerator over q.
RECURSIVE UtilizationOver(_, _)
UtilizationOver(ts, q) ==
    IF ts = <<>> THEN 0
    ELSE Head(ts).execution_time * (q \div Head(ts).deadline)
         + UtilizationOver(Tail(ts), q)

\* rate_monotonic_check with the period as the denominator of the
\* utilization.
RECURSIVE PeriodProduct(_)
PeriodProduct(ts) ==
    IF ts = <<>> THEN 1 ELSE Head(ts).period * PeriodProduct(Tail(ts))

RECURSIVE PeriodUtilizationOver(_, _)
PeriodUtilizationOver(ts, q) ==
    IF ts = <<>> THEN 0
    ELSE Head(ts).execution_time * (q \div Head(ts).period)
         + PeriodUtilizationOver(Tail(ts), q)

rate_monotonic_check_Period(ts) ==
    LET n == Len(ts)
        q == PeriodProduct(ts)
        p == PeriodUtilizationOver(ts, q)
    IN  Power(p + n * q, n) <= 2 * Power(n * q, n)

\* rate_monotonic_check with a strict comparison against the bound.
rate_monotonic_check_Strict(ts) ==
    LET n == Len(ts)
        q == DeadlineProduct(ts)
        p == UtilizationOver(ts, q)
    IN  Power(p + n * q, n) < 2 * Power(n * q, n)

\* rate_monotonic_check on a non-empty list of tasks with positive
\* deadlines: utilization <= n * (2 ** (1/n) - 1).  With utilization = p / q
\* the comparison is (p / (n * q) + 1) ** n <= 2, taken here in integers;
\* the two sides are never close enough for the floating-point rounding of
\* the code to decide otherwise on the explored values.
rate_monotonic_check(ts) ==
    LET n == Len(ts)
        q == DeadlineProduct(ts)
        p == UtilizationOver(ts, q)
    IN  Power(p + n * q, n) <= 2 * Power(n * q, n)

\* A call of rate_monotonic_check on any list: 1/n raises for the empty
\* list, execution_time / deadline raises for a deadline of 0.
RateMonotonicCheckCall(ts) ==
    IF Len(ts) = 0 \/ \E k \in 1..Len(ts) : ts[k].deadline = 0
    THEN [raised |-> "ZeroDivisionError", schedulable |-> FALSE]
    ELSE [raised |-> "None", schedulable |-> rate_monotonic_check(ts)]

\* DeadlineInterference with the quotient rounded down.
RECURSIVE DeadlineInterference_Floor(_, _, _)
DeadlineInterference_Floor(ts, i, h) ==
    IF h >= i THEN 0
    ELSE (ts[i].deadline \div ts[h].period) * ts[h].execution_time
         + DeadlineInterference_Floor(ts, i, h + 1)

\* rate_monotonic_check_1: the interference ceil(D_i / T_h) * C_h of the
\* tasks before i.
RECURSIVE DeadlineInterference(_, _, _)
DeadlineInterference(ts, i, h) ==
    IF h >= i THEN 0
    ELSE Ceil(ts[i].deadline, ts[h].period) * ts[h].execution_time
         + DeadlineInterference(ts, i, h + 1)

\* rate_monotonic_check_1: the for loop from task i on.  (A singleton set
\* binds response_time to its value once.)
RECURSIVE DeadlineTestFrom(_, _, _, _)
DeadlineTestFrom(ts, i, response_times, all_schedulable) ==
    IF i > Len(ts)
    THEN [all_schedulable |-> all_schedulable, response_times |-> response_times]
    ELSE CHOOSE result \in
            {DeadlineTestFrom(ts, i + 1, Append(response_times, response_time),
                              IF response_time > ts[i].deadline THEN FALSE
                              ELSE all_schedulable) :
               response_time \in {ts[i].execution_time
                                  + DeadlineInterference(ts, i, 1)}} : TRUE

\* rate_monotonic_check_1 with the sort by period left out.
rate_monotonic_check_1_Unsorted(task_set) ==
    DeadlineTestFrom(task_set, 1, <<>>, TRUE)

\* rate_monotonic_check_1(task_set): sorted_tasks = sorted(task_set,
\* key=lambda x: x.period), then the loop over sorted_tasks.
rate_monotonic_check_1(task_set) ==
    CHOOSE result \in
       {DeadlineTestFrom(sorted, 1, <<>>, TRUE) :
          sorted \in {SortByPeriod(task_set)}} : TRUE

---------------------------------------------------------------------------
(* task_schedule_visualizer.py: _generate_schedule_data *)

\* PriorityKey that prefers the task's priority field where it is set.
PriorityKey_Field(task, alg) ==
    IF task.priority # NoPriority THEN task.priority
    ELSE IF alg = "DM" THEN task.deadline ELSE task.period

\* The sort key of a task under the algorithm.
PriorityKey(task, alg) == IF alg = "DM" THEN task.deadline ELSE task.period

\* tasks_sorted, as positions of ts.
SortTasks(ts, alg) ==
    StableSort([k \in 1..Len(ts) |-> k],
               [k \in 1..Len(ts) |-> PriorityKey(ts[k], alg)])

TimeRange(ts, cycles) == LcmReduce([k \in 1..Len(ts) |-> ts[k].period]) * cycles

\* NewInstance with the absolute deadline taken from the period.
NewInstance_PeriodDeadline(i, time) ==
    [task |-> i,
     remaining |-> tasks[i].execution_time,
     release_time |-> time,
     absolute_deadline |-> time + tasks[i].period]

\* NewInstance with the deadline of the task taken as the absolute deadline.
NewInstance_RelativeDeadline(i, time) ==
    [task |-> i,
     remaining |-> tasks[i].execution_time,
     release_time |-> time,
     absolute_deadline |-> tasks[i].deadline]

\* The instance appended for task position i released at time.
NewInstance(i, time) ==
    [task |-> i,
     remaining |-> tasks[i].execution_time,
     release_time |-> time,
     absolute_deadline |-> time + tasks[i].deadline]

\* "Add new task releases": one instance per task whose period divides
\* time, appended in tasks_sorted order.
RECURSIVE ReleaseFrom(_, _, _)
ReleaseFrom(active, k, time) ==
    IF k > Len(tasks_sorted) THEN active
    ELSE IF time % tasks[tasks_sorted[k]].period = 0
         THEN ReleaseFrom(Append(active, NewInstance(tasks_sorted[k], time)), k + 1, time)
         ELSE ReleaseFrom(active, k + 1, time)

\* Release in which a new instance supersedes the earlier instances of its
\* task.
Release_Superseding(active, time) ==
    LET Kept(a) == time % tasks[a.task].period # 0
    IN  ReleaseFrom(SelectSeq(active, Kept), 1, time)

Release(active, time) == ReleaseFrom(active, 1, time)

\* RemoveCompleted that keeps the instances with no work left.
RemoveCompleted_KeepFinished(active) ==
    LET NotOverrun(a) == a.remaining >= 0
    IN  SelectSeq(active, NotOverrun)

\* RemoveCompleted with the filter left out.
RemoveCompleted_KeepAll(active) == active

\* "Remove completed tasks"
RemoveCompleted(active) ==
    LET Unfinished(a) == a.remaining > 0
    IN  SelectSeq(active, Unfinished)

\* SortByPriority on the list taken from its end: among equal keys the
\* newest instance comes first.
SortByPriority_NewestFirst(active) ==
    StableSort([k \in 1..Len(active) |-> active[Len(active) + 1 - k]],
               [k \in 1..Len(active) |->
                   PriorityKey(tasks[active[Len(active) + 1 - k].task], algorithm)])

\* SortByPriority with the sort left out: the list stays in arrival order.
SortByPriority_ArrivalOrder(active) == active

\* "Sort by priority based on algorithm": list.sort on the key of the
\* instance's task.
SortByPriority(active) ==
    StableSort(active,
               [k \in 1..Len(active) |-> PriorityKey(tasks[active[k].task], algorithm)])

\* PastDeadline that looks at the end of the time unit.
PastDeadline_EndOfUnit(time, executing_task) ==
    time + 1 >= executing_task.absolute_deadline

\* PastDeadline with a strict comparison.
PastDeadline_Strict(time, executing_task) == time > executing_task.absolute_deadline

\* "Check if current execution is past the deadline"
PastDeadline(time, executing_task) == time >= executing_task.absolute_deadline

\* One call of _generate_schedule_data has been made and no result kept.
CallerIdle ==
    /\ runs = 1
    /\ first_tasks = <<>>
    /\ first_timeline = <<>>
    /\ first_violations = <<>>

\* The analyses are not running: their variables hold their start values.
AnalysisIdle(pc) ==
    /\ analysis_pc = pc
    /\ raised = "None"
    /\ schedulable_bound = FALSE
    /\ sorted_tasks = <<>>
    /\ rta_i = 1
    /\ rta_r_new = 0
    /\ rta_r_old = 0
    /\ rta_response_times = <<>>
    /\ schedulable_rta = FALSE
    /\ schedulable_deadline = FALSE
    /\ deadline_response_times = <<>>

Init ==
    /\ AnalysisIdle("idle")
    /\ CallerIdle
    /\ \E n \in 1..MaxTasks :
         tasks \in [1..n -> {Task(p, c, d) : p \in 1..MaxPeriod, c \in 1..MaxExec,
                                             d \in {NoDeadline} \cup 1..MaxDeadline}]
    /\ lcm_cycles \in 1..MaxCycles
    /\ algorithm \in {"DM", "RM"}
    /\ time_range = TimeRange(tasks, lcm_cycles)
    /\ tasks_sorted = SortTasks(tasks, algorithm)
    /\ execution_timeline = [k \in 1..time_range |-> NoTask]
    /\ deadline_violations = [k \in 1..time_range |-> FALSE]
    /\ active_tasks = <<>>
    /\ t = 0

\* SimulateTimeUnit that stops with an error, before the unit is recorded,
\* when the instance to execute is past its deadline.
SimulateTimeUnit_RaiseOnMiss ==
    /\ t < time_range
    /\ \E ready \in {SortByPriority(RemoveCompleted(Release(active_tasks, t)))} :
         IF ready # <<>>
         THEN \E executing_task \in {ready[1]} :
                /\ ~PastDeadline(t, executing_task)
                /\ execution_timeline' =
                       [execution_timeline EXCEPT ![t + 1] = executing_task.task]
                /\ active_tasks' = [ready EXCEPT ![1].remaining = @ - 1]
                /\ UNCHANGED deadline_violations
         ELSE /\ active_tasks' = ready
              /\ UNCHANGED <<execution_timeline, deadline_violations>>
    /\ t' = t + 1
    /\ UNCHANGED <<tasks, lcm_cycles, algorithm, time_range, tasks_sorted>>
    /\ UNCHANGED <<analysis_vars, caller_vars>>

\* One iteration of "for t in range(time_range)".
SimulateTimeUnit ==
    /\ t < time_range
    /\ \E ready \in {SortByPriority(RemoveCompleted(Release(active_tasks, t)))} :
         IF ready # <<>>
         THEN \E executing_task \in {ready[1]} :
                /\ execution_timeline' =
                       [execution_timeline EXCEPT ![t + 1] = executing_task.task]
                /\ deadline_violations' =
                       [deadline_violations EXCEPT
                          ![t + 1] = IF PastDeadline(t, executing_task) THEN TRUE ELSE @]
                /\ active_tasks' = [ready EXCEPT ![1].remaining = @ - 1]
         ELSE /\ active_tasks' = ready
              /\ UNCHANGED <<execution_timeline, deadline_violations>>
    /\ t' = t + 1
    /\ UNCHANGED <<tasks, lcm_cycles, algorithm, time_range, tasks_sorted>>
    /\ UNCHANGED <<analysis_vars, caller_vars>>

Next == SimulateTimeUnit

Spec == Init /\ [][Next]_vars

\* A run from before the call of _generate_schedule_data: nothing is set up.
InitRun ==
    /\ AnalysisIdle("idle")
    /\ CallerIdle
    /\ tasks = <<>>
    /\ lcm_cycles = 1
    /\ algorithm = "DM"
    /\ time_range = 0
    /\ tasks_sorted = <<>>
    /\ execution_timeline = <<>>
    /\ deadline_violations = <<>>
    /\ active_tasks = <<>>
    /\ t = 0

\* The task lists of the run to completion: the deadline is left out (it
\* is the period) or it is the largest one.
RunTaskSets ==
    UNION {[1..n -> {Task(p, c, d) : p \in 1..MaxPeriod, c \in 1..MaxExec,
                                     d \in {NoDeadline, MaxDeadline}}] :
           n \in 1..MaxTasks}

\* The call with its arguments, and the statements before the loop.
CallSimulator ==
    /\ tasks = <<>>
    /\ tasks' \in RunTaskSets
    /\ lcm_cycles' \in 1..MaxRunCycles
    /\ algorithm' \in {"DM", "RM"}
    /\ time_range' = TimeRange(tasks', lcm_cycles')
    /\ tasks_sorted' = SortTasks(tasks', algorithm')
    /\ execution_timeline' = [k \in 1..time_range' |-> NoTask]
    /\ deadline_violations' = [k \in 1..time_range' |-> FALSE]
    /\ active_tasks' = <<>>
    /\ t' = 0
    /\ UNCHANGED <<analysis_vars, caller_vars>>

NextRun == CallSimulator \/ SimulateTimeUnit

\* The run of the for loop: the interpreter executes the loop body again as
\* long as range(time_range) has a value left, so a step that can be taken
\* is taken.
SpecRun == InitRun /\ [][NextRun]_vars /\ WF_vars(SimulateTimeUnit)

---------------------------------------------------------------------------
(* A caller that simulates a task set, analyses it, and simulates it again,
   with the same Task objects or with tasks that differ in priority only *)

\* Task lists that differ from ts in the priority fields only: ts itself,
\* ts with the priorities 1, 2, ... given in list order, and ts with them
\* given in the reverse order.
PriorityVariants(ts) ==
    {ts,
     [k \in 1..Len(ts) |-> [ts[k] EXCEPT !.priority = k]],
     [k \in 1..Len(ts) |-> [ts[k] EXCEPT !.priority = Len(ts) + 1 - k]]}

\* The caller has built its task list, and the first call of
\* _generate_schedule_data has done its setup.
InitRerun ==
    /\ AnalysisIdle("idle")
    /\ \E n \in 1..MaxTasks :
         tasks \in [1..n -> {Task(p, c, d) : p \in 1..MaxPeriod, c \in 1..MaxExec,
                                             d \in {NoDeadline} \cup 1..MaxDeadline}]
    /\ runs = 1
    /\ first_tasks = tasks
    /\ first_timeline = <<>>
    /\ first_violations = <<>>
    /\ lcm_cycles \in 1..MaxRerunCycles
    /\ algorithm \in {"DM", "RM"}
    /\ time_range = TimeRange(tasks, lcm_cycles)
    /\ tasks_sorted = SortTasks(tasks, algorithm)
    /\ execution_timeline = [k \in 1..time_range |-> NoTask]
    /\ deadline_violations = [k \in 1..time_range |-> FALSE]
    /\ active_tasks = <<>>
    /\ t = 0

\* CompareMethods with rate_monotonic_check_1 sorting its argument in place
\* (task_set.sort in the place of sorted).
CompareMethods_SortInPlace ==
    /\ runs = 1
    /\ t = time_range
    /\ analysis_pc = "idle"
    /\ analysis_pc' = "done"
    /\ tasks' = SortByPeriod(tasks)
    /\ schedulable_bound' = rate_monotonic_check(tasks)
    /\ sorted_tasks' = SortByPeriod(tasks)
    /\ schedulable_rta' = response_time_analysis(sorted_tasks').schedulable
    /\ rta_response_times' = response_time_analysis(sorted_tasks').response_times
    /\ schedulable_deadline' = rate_monotonic_check_1(tasks).all_schedulable
    /\ deadline_response_times' = rate_monotonic_check_1(tasks).response_times
    /\ UNCHANGED <<sim_vars, caller_vars, raised, rta_i, rta_r_new, rta_r_old>>

\* The caller has the first schedule and calls the three analyses on the
\* same list, as compare_rm_methods does.
CompareMethods ==
    /\ runs = 1
    /\ t = time_range
    /\ analysis_pc = "idle"
    /\ analysis_pc' = "done"
    /\ schedulable_bound' = rate_monotonic_check(tasks)
    /\ sorted_tasks' = SortByPeriod(tasks)
    /\ schedulable_rta' = response_time_analysis(sorted_tasks').schedulable
    /\ rta_response_times' = response_time_analysis(sorted_tasks').response_times
    /\ schedulable_deadline' = rate_monotonic_check_1(tasks).all_schedulable
    /\ deadline_response_times' = rate_monotonic_check_1(tasks).response_times
    /\ UNCHANGED <<tasks, sim_vars, caller_vars, raised, rta_i, rta_r_new, rta_r_old>>

\* CallAgain in which the list of instances outlives the call.
CallAgain_KeepActive ==
    /\ runs = 1
    /\ analysis_pc = "done"
    /\ runs' = 2
    /\ first_timeline' = execution_timeline
    /\ first_violations' = deadline_violations
    /\ tasks' \in PriorityVariants(tasks)
    /\ time_range' = TimeRange(tasks', lcm_cycles)
    /\ tasks_sorted' = SortTasks(tasks', algorithm)
    /\ execution_timeline' = [k \in 1..time_range' |-> NoTask]
    /\ deadline_violations' = [k \in 1..time_range' |-> FALSE]
    /\ active_tasks' = active_tasks
    /\ t' = 0
    /\ UNCHANGED <<lcm_cycles, algorithm, analysis_vars, first_tasks>>

\* The caller keeps the first result and calls _generate_schedule_data a
\* second time, with the same cycle count and algorithm: the setup of the
\* call makes its locals anew.
CallAgain ==
    /\ runs = 1
    /\ analysis_pc = "done"
    /\ runs' = 2
    /\ first_timeline' = execution_timeline
    /\ first_violations' = deadline_violations
    /\ tasks' \in PriorityVariants(tasks)
    /\ time_range' = TimeRange(tasks', lcm_cycles)
    /\ tasks_sorted' = SortTasks(tasks', algorithm)
    /\ execution_timeline' = [k \in 1..time_range' |-> NoTask]
    /\ deadline_violations' = [k \in 1..time_range' |-> FALSE]
    /\ active_tasks' = <<>>
    /\ t' = 0
    /\ UNCHANGED <<lcm_cycles, algorithm, analysis_vars, first_tasks>>

NextRerun == SimulateTimeUnit \/ CompareMethods \/ CallAgain

SpecRerun == InitRerun /\ [][NextRerun]_vars

---------------------------------------------------------------------------
(* rate_monotonic.py: compare_rm_methods, the three analyses of a task set *)

\* The simulator is not running.
SimulatorIdle ==
    /\ lcm_cycles = 1
    /\ algorithm = "RM"
    /\ time_range = 0
    /\ tasks_sorted = <<>>
    /\ execution_timeline = <<>>
    /\ deadline_violations = <<>>
    /\ active_tasks = <<>>
    /\ t = 0

\* The task sets compare_rm_methods is called with.
AnalysisTaskSets ==
    UNION {[1..n -> {Task(p, c, d) : p \in 1..MaxPeriod, c \in 1..MaxExec,
                                     d \in {NoDeadline} \cup 1..MaxAnalysisDeadline}] :
           n \in 1..MaxTasks}

InitAnalysis ==
    /\ tasks = <<>>
    /\ SimulatorIdle
    /\ CallerIdle
    /\ AnalysisIdle("bound")

\* compare_rm_methods(task_set), Method 1:
\* schedulable_bound = rate_monotonic_check(task_set); then the task set is
\* sorted by period for response_time_analysis.
MethodBound ==
    /\ analysis_pc = "bound"
    /\ tasks' \in AnalysisTaskSets
    /\ schedulable_bound' = rate_monotonic_check(tasks')
    /\ sorted_tasks' = SortByPeriod(tasks')
    /\ rta_i' = 1
    /\ rta_response_times' = <<>>
    /\ analysis_pc' = "rta_for"
    /\ UNCHANGED <<sim_vars, caller_vars, raised, rta_r_new, rta_r_old, schedulable_rta,
                   schedulable_deadline, deadline_response_times>>

\* RtaNextTask with the iteration started from the deadline.
RtaNextTask_FromDeadline ==
    /\ analysis_pc = "rta_for"
    /\ IF rta_i <= Len(sorted_tasks)
       THEN /\ rta_r_new' = sorted_tasks[rta_i].deadline
            /\ analysis_pc' = "rta_while"
            /\ UNCHANGED schedulable_rta
       ELSE /\ schedulable_rta' = TRUE
            /\ analysis_pc' = "deadline"
            /\ UNCHANGED rta_r_new
    /\ UNCHANGED <<tasks, sim_vars, caller_vars, raised, schedulable_bound, sorted_tasks, rta_i,
                   rta_r_old, rta_response_times, schedulable_deadline,
                   deadline_response_times>>

\* response_time_analysis, "for i in range(n)": the next task starts with
\* its execution time, or the function returns True.
RtaNextTask ==
    /\ analysis_pc = "rta_for"
    /\ IF rta_i <= Len(sorted_tasks)
       THEN /\ rta_r_new' = sorted_tasks[rta_i].execution_time
            /\ analysis_pc' = "rta_while"
            /\ UNCHANGED schedulable_rta
       ELSE /\ schedulable_rta' = TRUE
            /\ analysis_pc' = "deadline"
            /\ UNCHANGED rta_r_new
    /\ UNCHANGED <<tasks, sim_vars, caller_vars, raised, schedulable_bound, sorted_tasks, rta_i,
                   rta_r_old, rta_response_times, schedulable_deadline,
                   deadline_response_times>>

\* RtaIteration with the assignment r_old = r_new left out.
RtaIteration_StaleOld ==
    /\ analysis_pc = "rta_while"
    /\ rta_r_old' = rta_r_old
    /\ rta_r_new' = sorted_tasks[rta_i].execution_time
                      + Interference(sorted_tasks, rta_i, 1, rta_r_new)
    /\ IF rta_r_new' > sorted_tasks[rta_i].deadline
       THEN /\ schedulable_rta' = FALSE
            /\ rta_response_times' = rta_response_times \o <<Inf>>
            /\ analysis_pc' = "deadline"
            /\ UNCHANGED rta_i
       ELSE IF rta_r_new' = rta_r_old'
       THEN /\ rta_response_times' = Append(rta_response_times, rta_r_new')
            /\ rta_i' = rta_i + 1
            /\ analysis_pc' = "rta_for"
            /\ UNCHANGED schedulable_rta
       ELSE UNCHANGED <<rta_response_times, rta_i, analysis_pc, schedulable_rta>>
    /\ UNCHANGED <<tasks, sim_vars, caller_vars, raised, schedulable_bound, sorted_tasks,
                   schedulable_deadline, deadline_response_times>>

\* response_time_analysis, one pass of "while True".
RtaIteration ==
    /\ analysis_pc = "rta_while"
    /\ rta_r_old' = rta_r_new
    /\ rta_r_new' = sorted_tasks[rta_i].execution_time
                      + Interference(sorted_tasks, rta_i, 1, rta_r_new)
    /\ IF rta_r_new' > sorted_tasks[rta_i].deadline
       THEN /\ schedulable_rta' = FALSE
            /\ rta_response_times' = rta_response_times \o <<Inf>>
            /\ analysis_pc' = "deadline"
            /\ UNCHANGED rta_i
       ELSE IF rta_r_new' = rta_r_old'
       THEN /\ rta_response_times' = Append(rta_response_times, rta_r_new')
            /\ rta_i' = rta_i + 1
            /\ analysis_pc' = "rta_for"
            /\ UNCHANGED schedulable_rta
       ELSE UNCHANGED <<rta_response_times, rta_i, analysis_pc, schedulable_rta>>
    /\ UNCHANGED <<tasks, sim_vars, caller_vars, raised, schedulable_bound, sorted_tasks,
                   schedulable_deadline, deadline_response_times>>

\* Method 3: schedulable_deadline = rate_monotonic_check_1(task_set).
MethodDeadline ==
    /\ analysis_pc = "deadline"
    /\ schedulable_deadline' = rate_monotonic_check_1(tasks).all_schedulable
    /\ deadline_response_times' = rate_monotonic_check_1(tasks).response_times
    /\ analysis_pc' = "done"
    /\ UNCHANGED <<tasks, sim_vars, caller_vars, raised, schedulable_bound, sorted_tasks, rta_i,
                   rta_r_new, rta_r_old, rta_response_times, schedulable_rta>>

NextAnalysis == MethodBound \/ RtaNextTask \/ RtaIteration \/ MethodDeadline

\* The caller runs to the end: every step that can be taken is taken.
SpecAnalysis == InitAnalysis /\ [][NextAnalysis]_vars /\ WF_vars(NextAnalysis)

---------------------------------------------------------------------------
(* Vocabulary of the properties *)

TaskIds == 1..Len(tasks)

\* The run has executed all its time units.
Done == t = time_range

\* The tasks whose release falls on time unit `time`.
ReleasedAt(time) == {i \in TaskIds : time % tasks[i].period = 0}

\* The instances ready in the coming unit t, after the release and retire
\* phases: the unfinished instances carried over and the new releases.
ReadyInstances ==
    {a \in Range(active_tasks) : a.remaining > 0}
    \cup {[task |-> i,
           remaining |-> tasks[i].execution_time,
           release_time |-> t,
           absolute_deadline |-> t + tasks[i].deadline] : i \in ReleasedAt(t)}

\* Instance e received the unit of execution of this step.
Executed(e) ==
    \E k \in 1..Len(active_tasks') :
        active_tasks'[k] = [e EXCEPT !.remaining = e.remaining - 1]

\* The priority key of an instance under the active policy.
KeyOf(a) == IF algorithm = "RM" THEN tasks[a.task].period ELSE tasks[a.task].deadline

AnyViolation == \E k \in 1..Len(deadline_violations) : deadline_violations[k]

\* After unit t - 1: an instance with work left whose deadline has come.
MissedInstance(a) == a.remaining > 0 /\ a.absolute_deadline <= t

\* Some instance of the run so far did not complete by its absolute
\* deadline: it executed at or after the deadline (flagged), or it still has
\* work left with the deadline reached.
MissObserved == AnyViolation \/ \E a \in Range(active_tasks) : MissedInstance(a)

RtaSchedulable == response_time_analysis(SortByPeriod(tasks)).schedulable

ConstrainedDeadlines == \A i \in TaskIds : tasks[i].deadline <= tasks[i].period

---------------------------------------------------------------------------
(* Properties *)

\* C1: in every time unit with a ready instance, one ready instance executes,
\* it is the one recorded in the timeline, and no ready unfinished instance
\* has a strictly smaller priority key (period under RM, deadline under DM).
C1_HighestPriorityRuns ==
    [][t < time_range =>
         /\ ReadyInstances # {} => \E e \in ReadyInstances : Executed(e)
         /\ \A e \in ReadyInstances :
              Executed(e) =>
                 /\ execution_timeline'[t + 1] = e.task
                 /\ \A r \in ReadyInstances : KeyOf(r) >= KeyOf(e)]_vars

\* C1 witness: an instance released in the last unit ran in it, ahead of an
\* instance with a larger key that ran in the unit before and is unfinished.
C1_Witness ==
    /\ t >= 2
    /\ \E a, b \in Range(active_tasks) :
         /\ a.release_time = t - 1
         /\ a.task = execution_timeline[t]
         /\ a.remaining = tasks[a.task].execution_time - 1
         /\ b.release_time < t - 1
         /\ b.task = execution_timeline[t - 1]
         /\ b.remaining > 0
         /\ b.remaining < tasks[b.task].execution_time
         /\ KeyOf(a) < KeyOf(b)

\* C2: among ready instances that share the smallest key, the one that
\* executes belongs to the task that comes first in the input order.
C2_TieByInputOrder ==
    [][t < time_range =>
         \A e \in ReadyInstances :
            Executed(e) =>
               \A r \in ReadyInstances : KeyOf(r) = KeyOf(e) => e.task <= r.task]_vars

\* C3: the flag of unit t is true iff an instance executes in t and t is at or
\* past that instance's release time plus its task's relative deadline; the
\* flags of earlier units are left as they are.
C3_ViolationFlag ==
    [][t < time_range =>
         /\ deadline_violations'[t + 1] <=>
               \E e \in ReadyInstances :
                  Executed(e) /\ t >= e.release_time + tasks[e.task].deadline
         /\ \A k \in 1..t : deadline_violations'[k] = deadline_violations[k]]_vars

\* C3 witness: the last unit is flagged for a late instance while a younger
\* instance of the same task, not yet late, is ready too.
C3_Witness ==
    /\ t >= 1
    /\ deadline_violations[t]
    /\ \E a, b \in Range(active_tasks) :
         /\ a.task = execution_timeline[t]
         /\ a.remaining < tasks[a.task].execution_time
         /\ a.absolute_deadline <= t - 1
         /\ b.task = a.task
         /\ b.release_time > a.release_time
         /\ b.absolute_deadline > t - 1

\* C4: a finished run in which an instance had work left at a unit at or past
\* its deadline has a true flag.  An instance that is late and later finishes
\* executes late and is flagged, so the claim comes down to the instances
\* that are still unfinished at the end.
C4_EveryMissFlagged ==
    (Done /\ \E a \in Range(active_tasks) :
                a.remaining > 0 /\ a.absolute_deadline <= time_range - 1)
    => AnyViolation

\* C5: the slot of unit t is idle iff no instance is ready in t, and an idle
\* slot is never flagged.
C5_WorkConserving ==
    [][t < time_range =>
         /\ execution_timeline'[t + 1] = NoTask <=> ReadyInstances = {}
         /\ execution_timeline'[t + 1] = NoTask => ~deadline_violations'[t + 1]]_vars

\* C5 witness: an idle unit after a unit in which a task ran.
C5_Witness ==
    /\ t >= 2
    /\ execution_timeline[t] = NoTask
    /\ ~deadline_violations[t]
    /\ execution_timeline[t - 1] # NoTask

\* C6: in unit t every task whose period divides t gets exactly one new
\* instance and every other task none; the new instance has release time t,
\* absolute deadline t + deadline and the task's full execution time, of
\* which it can spend one unit in t itself (it does when nothing else is
\* ready).
C6_Release ==
    [][t < time_range =>
         /\ \A a \in Range(active_tasks) : a.release_time < t
         /\ \A i \in TaskIds :
              LET new == {k \in 1..Len(active_tasks') :
                             /\ active_tasks'[k].task = i
                             /\ active_tasks'[k].release_time >= t}
              IN  /\ Cardinality(new) = IF t % tasks[i].period = 0 THEN 1 ELSE 0
                  /\ \A k \in new :
                       /\ active_tasks'[k].release_time = t
                       /\ active_tasks'[k].absolute_deadline = t + tasks[i].deadline
                       /\ \/ active_tasks'[k].remaining = tasks[i].execution_time
                          \/ /\ active_tasks'[k].remaining = tasks[i].execution_time - 1
                             /\ execution_timeline'[t + 1] = i
                       /\ ReadyInstances = {[active_tasks'[k] EXCEPT
                                               !.remaining = tasks[i].execution_time]}
                            => active_tasks'[k].remaining = tasks[i].execution_time - 1]_vars

\* C6 witness: an instance released at a time other than 0 ran in the unit of
\* its release, and a task not due in that unit got no instance.
C6_Witness ==
    /\ t >= 2
    /\ \E a \in Range(active_tasks) :
         /\ a.release_time = t - 1
         /\ a.remaining = tasks[a.task].execution_time - 1
    /\ \E i \in TaskIds : (t - 1) % tasks[i].period # 0

\* The work left of task i over the instances of a list.
RECURSIVE RemainingOf(_, _)
RemainingOf(active, i) ==
    IF active = <<>> THEN 0
    ELSE (IF Head(active).task = i THEN Head(active).remaining ELSE 0)
         + RemainingOf(Tail(active), i)

\* C7: an instance with work left stays in the list, with its own release
\* time and absolute deadline and its work left unchanged or one less; a
\* release adds an instance whatever the list holds.  Nothing is merged,
\* dropped or capped: the work left of a task is all the work released for it
\* less the units it has executed.
C7_NoDropNoMerge ==
    /\ [][t < time_range =>
            /\ \A a \in Range(active_tasks) :
                 a.remaining > 0 =>
                    \E k \in 1..Len(active_tasks') :
                       \/ active_tasks'[k] = a
                       \/ active_tasks'[k] = [a EXCEPT !.remaining = a.remaining - 1]
            /\ Len(active_tasks') = Cardinality(ReadyInstances)]_vars
    /\ [](\A i \in TaskIds :
             RemainingOf(active_tasks, i) =
                tasks[i].execution_time * Ceil(t, tasks[i].period)
                - Cardinality({k \in 1..t : execution_timeline[k] = i}))

\* C7 witness: three unfinished instances of one task, released at three
\* different times, wait together.
C7_Witness ==
    \E a, b, c \in Range(active_tasks) :
       /\ a.task = b.task /\ b.task = c.task
       /\ a.release_time < b.release_time /\ b.release_time < c.release_time
       /\ a.remaining > 0 /\ b.remaining > 0 /\ c.remaining > 0
       /\ a.absolute_deadline < b.absolute_deadline
       /\ b.absolute_deadline < c.absolute_deadline

\* C8: time_range is lcm_cycles times the least positive common multiple of
\* the periods, and both output sequences have time_range entries.
C8_TimeRange ==
    LET h == time_range \div lcm_cycles
    IN  /\ time_range = h * lcm_cycles
        /\ h >= 1
        /\ \A i \in TaskIds : h % tasks[i].period = 0
        /\ \A m \in 1..(h - 1) : \E i \in TaskIds : m % tasks[i].period # 0
        /\ Len(execution_timeline) = time_range
        /\ Len(deadline_violations) = time_range

\* C8 witness: a finished run of several cycles over two tasks whose
\* hyperperiod is smaller than the product of their periods.
C8_Witness ==
    /\ Done
    /\ lcm_cycles >= 2
    /\ Len(tasks) = 2
    /\ tasks[1].period > 1
    /\ time_range < tasks[1].period * tasks[2].period * lcm_cycles

\* C9: when the response-time analysis of the period-sorted set says
\* schedulable, the Rate-Monotonic run flags no unit and no instance has work
\* left when its absolute deadline comes.
C9_RtaSufficient ==
    (algorithm = "RM" /\ RtaSchedulable) => ~MissObserved

\* C10: when the response-time analysis of the period-sorted set says not
\* schedulable, the Rate-Monotonic run over one hyperperiod holds an instance
\* that did not complete by its absolute deadline.
C10_RtaNecessary ==
    (Done /\ algorithm = "RM" /\ lcm_cycles = 1 /\ ~RtaSchedulable) => MissObserved

\* C10 as amended: the same, for task sets in which no deadline exceeds its
\* task's period.
C10_RtaNecessaryConstrained ==
    (Done /\ algorithm = "RM" /\ lcm_cycles = 1 /\ ~RtaSchedulable
          /\ ConstrainedDeadlines)
    => MissObserved

\* C10 witness: a one-hyperperiod Rate-Monotonic run of two tasks with
\* constrained deadlines that the analysis rejects at the second task, ended
\* with a missed instance.
C10_Witness ==
    /\ Done /\ algorithm = "RM" /\ lcm_cycles = 1
    /\ ConstrainedDeadlines
    /\ Len(tasks) = 2
    /\ response_time_analysis(SortByPeriod(tasks)).response_times # <<Inf>>
    /\ ~RtaSchedulable
    /\ MissObserved

---------------------------------------------------------------------------
(* A caller that constructs tasks from unchecked arguments and calls
   rate_monotonic_check on the list it has built *)

InitConstruct ==
    /\ tasks = <<>>
    /\ SimulatorIdle
    /\ CallerIdle
    /\ AnalysisIdle("construct")

\* Task(period, execution_time, deadline): __init__ stores its arguments;
\* a deadline of None or 0 is replaced by the period.
Construct ==
    /\ analysis_pc = "construct"
    /\ Len(tasks) < MaxTasks
    /\ \E period \in 0..MaxPeriod, execution_time \in 0..MaxExec,
          deadline \in {NoDeadline} \cup 1..MaxAnalysisDeadline :
          tasks' = Append(tasks, Task(period, execution_time, deadline))
    /\ UNCHANGED <<sim_vars, analysis_vars, caller_vars>>

\* rate_monotonic_check(task_set) on the list built so far.
CallBound ==
    /\ analysis_pc = "construct"
    /\ analysis_pc' = "called"
    /\ raised' = RateMonotonicCheckCall(tasks).raised
    /\ schedulable_bound' = RateMonotonicCheckCall(tasks).schedulable
    /\ UNCHANGED <<tasks, sim_vars, caller_vars, sorted_tasks, rta_i, rta_r_new, rta_r_old,
                   rta_response_times, schedulable_rta, schedulable_deadline,
                   deadline_response_times>>

NextConstruct == Construct \/ CallBound

SpecConstruct == InitConstruct /\ [][NextConstruct]_vars

---------------------------------------------------------------------------
(* The task sets of the scripts: simulated for one hyperperiod, then given
   to response_time_analysis in period order *)

\* task_set_1 of main in task_schedule_visualizer.py.
ScenarioA == <<Task(8, 2, 6), Task(12, 3, 10), Task(20, 4, 18)>>

\* task_set_1 of debug_violations.py and task4_debug.py.
ScenarioB == <<Task(5, 1, 5), Task(7, 2, 7), Task(10, 2, 10), Task(14, 4, 14)>>

InitScenario ==
    /\ AnalysisIdle("idle")
    /\ CallerIdle
    /\ tasks \in {ScenarioA, ScenarioB}
    /\ lcm_cycles = 1
    /\ algorithm \in {"DM", "RM"}
    /\ time_range = TimeRange(tasks, lcm_cycles)
    /\ tasks_sorted = SortTasks(tasks, algorithm)
    /\ execution_timeline = [k \in 1..time_range |-> NoTask]
    /\ deadline_violations = [k \in 1..time_range |-> FALSE]
    /\ active_tasks = <<>>
    /\ t = 0

\* sorted_tasks = sorted(task_set, key=lambda x: x.period), and the entry of
\* response_time_analysis(sorted_tasks).
RtaCall ==
    /\ analysis_pc = "idle"
    /\ t = time_range
    /\ sorted_tasks' = SortByPeriod(tasks)
    /\ rta_i' = 1
    /\ rta_response_times' = <<>>
    /\ analysis_pc' = "rta_for"
    /\ UNCHANGED <<tasks, sim_vars, caller_vars, raised, schedulable_bound, rta_r_new,
                   rta_r_old, schedulable_rta, schedulable_deadline,
                   deadline_response_times>>

NextScenario == SimulateTimeUnit \/ RtaCall \/ RtaNextTask \/ RtaIteration

SpecScenario == InitScenario /\ [][NextScenario]_vars

---------------------------------------------------------------------------
(* Vocabulary of the properties of the analyses *)

\* response_time_analysis has returned.
RtaReturned == analysis_pc \in {"deadline", "done"}

AnalysisDone == analysis_pc = "done"

\* The demand of the first h tasks of ts over a window of length w:
\* the sum of ceil(w / T) * C.
RECURSIVE HigherPriorityLoad(_, _, _)
HigherPriorityLoad(ts, h, w) ==
    IF h = 0 THEN 0
    ELSE HigherPriorityLoad(ts, h - 1, w)
         + ((w + ts[h].period - 1) \div ts[h].period) * ts[h].execution_time

\* The fixed points of R = C_i + sum over the tasks before i, up to D_i.
FixedPoints(ts, i) ==
    {R \in 1..ts[i].deadline :
        R = ts[i].execution_time + HigherPriorityLoad(ts, i - 1, R)}

LeastFixedPoint(ts, i) ==
    CHOOSE R \in FixedPoints(ts, i) : \A R2 \in FixedPoints(ts, i) : R <= R2

\* The tasks of ts in ascending order of period, equal periods in the order
\* of ts.
PeriodOrdered(ts) ==
    [r \in 1..Len(ts) |->
        ts[CHOOSE k \in 1..Len(ts) :
              Cardinality({j \in 1..Len(ts) :
                              \/ ts[j].period < ts[k].period
                              \/ ts[j].period = ts[k].period /\ j < k}) = r - 1]]

\* n * (2^(1/n) - 1) in units of 1/100000, rounded down.
LiuLaylandBound(n) ==
    CASE n = 1 -> 100000
      [] n = 2 -> 82842
      [] n = 3 -> 77976
      [] n = 4 -> 75682

\* The sum of C / D over the first k tasks, in units of 1 / q.
RECURSIVE DeadlineUtilization(_, _, _)
DeadlineUtilization(ts, k, q) ==
    IF k = 0 THEN 0
    ELSE DeadlineUtilization(ts, k - 1, q)
         + (ts[k].execution_time * q) \div ts[k].deadline

\* A number every deadline of ts divides.
RECURSIVE CommonDenominator(_, _)
CommonDenominator(ts, k) ==
    IF k = 0 THEN 1 ELSE CommonDenominator(ts, k - 1) * ts[k].deadline

\* The lists that hold the tasks of ts in some order.
Reorderings(ts) ==
    {[k \in 1..Len(ts) |-> ts[f[k]]] :
        f \in {g \in [1..Len(ts) -> 1..Len(ts)] :
                 \A a, b \in 1..Len(ts) : a # b => g[a] # g[b]}}

---------------------------------------------------------------------------
(* Properties of the analyses *)

\* C11: response_time_analysis returns True exactly when every task i of the
\* list has a fixed point of R = C_i + sum over h < i of ceil(R / T_h) * C_h
\* that is at most D_i, and then returns the smallest fixed point of each
\* task; only the tasks before i enter the sum.
C11_RtaFixedPoint ==
    RtaReturned =>
       /\ schedulable_rta <=>
             \A i \in 1..Len(sorted_tasks) : FixedPoints(sorted_tasks, i) # {}
       /\ schedulable_rta =>
             rta_response_times =
                [i \in 1..Len(sorted_tasks) |-> LeastFixedPoint(sorted_tasks, i)]

\* C11 witness: a schedulable set of two tasks in which the second task's
\* response time is longer than its execution time.
C11_Witness ==
    /\ RtaReturned
    /\ schedulable_rta
    /\ Len(sorted_tasks) = 2
    /\ rta_response_times[2] > sorted_tasks[2].execution_time

\* C12: a False verdict comes with one response time per task of the input:
\* the converged values of the tasks before i, and infinity for task i and
\* for every task after it.
C12_InfForUnanalysed ==
    (RtaReturned /\ ~schedulable_rta) =>
       /\ Len(rta_response_times) = Len(sorted_tasks)
       /\ \A k \in 1..Len(sorted_tasks) :
            /\ k <= Len(rta_response_times)
            /\ k < rta_i => rta_response_times[k] = LeastFixedPoint(sorted_tasks, k)
            /\ k >= rta_i => rta_response_times[k] = Inf

\* C13: the inner loop of every task ends, and response_time_analysis
\* returns.
C13_RtaTerminates ==
    /\ (analysis_pc = "rta_while") ~> (analysis_pc # "rta_while")
    /\ <>RtaReturned

\* C13 witness: the analysis has returned False for a set whose utilization
\* exceeds 1, after more than one pass of the loop of the rejected task.
C13_Witness ==
    /\ RtaReturned
    /\ ~schedulable_rta
    /\ rta_r_old > sorted_tasks[rta_i].execution_time
    /\ \E k \in 1..Len(sorted_tasks) :
          sorted_tasks[k].execution_time > sorted_tasks[k].period

\* C14: a task set the deadline-based test accepts is accepted by the
\* response-time analysis of the period-sorted set.
C14_DeadlineImpliesRta ==
    AnalysisDone => (schedulable_deadline => schedulable_rta)

\* C14 witness: both accept a set of two tasks in which the second suffers
\* interference.
C14_Witness ==
    /\ AnalysisDone
    /\ schedulable_deadline
    /\ schedulable_rta
    /\ Len(sorted_tasks) = 2
    /\ deadline_response_times[2] > sorted_tasks[2].execution_time

\* C15: a task set the utilization bound test accepts is accepted by the
\* response-time analysis of the period-sorted set.
C15_BoundImpliesRta ==
    AnalysisDone => (schedulable_bound => schedulable_rta)

\* C16: a task set with a task whose execution time exceeds its period is
\* rejected by each of the three analyses.
C16_OverloadedTaskRejected ==
    (AnalysisDone /\ \E i \in TaskIds : tasks[i].execution_time > tasks[i].period)
    => (~schedulable_bound /\ ~schedulable_rta /\ ~schedulable_deadline)

\* C17: rate_monotonic_check_1 takes the tasks in ascending order of period
\* (equal periods in input order), computes for every task
\* C_i + sum over h < i of ceil(D_i / T_h) * C_h, also after a task has
\* failed, and returns True iff every such value is at most D_i.
C17_DeadlineTest ==
    AnalysisDone =>
       LET ordered == PeriodOrdered(tasks)
           Value(i) == ordered[i].execution_time
                       + HigherPriorityLoad(ordered, i - 1, ordered[i].deadline)
       IN  /\ deadline_response_times = [i \in 1..Len(tasks) |-> Value(i)]
           /\ schedulable_deadline <=>
                 \A i \in 1..Len(tasks) : Value(i) <= ordered[i].deadline

\* C17 witness: the tasks are given out of period order, the first task in
\* period order fails and the second one is evaluated all the same.
C17_Witness ==
    /\ AnalysisDone
    /\ Len(tasks) = 2
    /\ tasks[1].period > tasks[2].period
    /\ ~schedulable_deadline
    /\ deadline_response_times[1] > tasks[2].deadline
    /\ Len(deadline_response_times) = 2

\* C18: no Task object exists whose period, execution time or deadline is
\* zero or negative: the constructor rejects such arguments.
C18_InvalidTaskRejected ==
    \A i \in 1..Len(tasks) :
       /\ tasks[i].period > 0
       /\ tasks[i].execution_time > 0
       /\ tasks[i].deadline > 0

\* C19: rate_monotonic_check on the empty list ends in an error and not in
\* a verdict, and that error is raised for the empty list only.
C19_EmptyInputDistinct ==
    analysis_pc = "called" =>
       /\ tasks = <<>> => raised # "None"
       /\ raised = RateMonotonicCheckCall(<<>>).raised => tasks = <<>>

---------------------------------------------------------------------------
(* Properties of repeated runs *)

\* The second call of _generate_schedule_data has returned.
SecondRunDone == runs = 2 /\ t = time_range

DifferInPriorityOnly(a, b) ==
    /\ Len(a) = Len(b)
    /\ \A k \in 1..Len(a) : [a[k] EXCEPT !.priority = b[k].priority] = b[k]

\* The three analyses applied to ts give the results the caller has stored
\* for first_tasks.
SameAnalysisResults(ts) ==
    /\ rate_monotonic_check(ts) = schedulable_bound
    /\ response_time_analysis(SortByPeriod(ts)).schedulable = schedulable_rta
    /\ response_time_analysis(SortByPeriod(ts)).response_times = rta_response_times
    /\ rate_monotonic_check_1(ts).all_schedulable = schedulable_deadline
    /\ rate_monotonic_check_1(ts).response_times = deadline_response_times

\* C29: a task set that differs from the first one in priority fields only
\* gets the same verdicts and response times from the three analyses, and
\* under either policy the same priority order, execution_timeline and
\* deadline_violations.
C29_PriorityFieldUnused ==
    (SecondRunDone /\ tasks # first_tasks /\ DifferInPriorityOnly(tasks, first_tasks)) =>
       /\ SameAnalysisResults(tasks)
       /\ tasks_sorted = SortTasks(first_tasks, algorithm)
       /\ execution_timeline = first_timeline
       /\ deadline_violations = first_violations

\* C29 witness: the second run gave the task with the larger key under the
\* policy the priority 1 and the other task the priority 2, and both tasks
\* ran.
C29_Witness ==
    /\ SecondRunDone
    /\ Len(tasks) = 2
    /\ PriorityKey(tasks[1], algorithm) < PriorityKey(tasks[2], algorithm)
    /\ tasks[1].priority = 2
    /\ tasks[2].priority = 1
    /\ first_tasks[2].priority = NoPriority
    /\ \E j, k \in 1..time_range : execution_timeline[j] = 1 /\ execution_timeline[k] = 2

\* C30: no call changes the caller's task list (its order, or a field of a
\* task), and calling again with the same list gives the same results: the
\* same timeline and flags from the simulator, the same verdicts and
\* response times from the analyses.
C30_InputUnchanged ==
    /\ runs = 1 => tasks = first_tasks
    /\ runs = 2 => DifferInPriorityOnly(tasks, first_tasks)
    /\ (SecondRunDone /\ tasks = first_tasks) =>
          /\ SameAnalysisResults(tasks)
          /\ execution_timeline = first_timeline
          /\ deadline_violations = first_violations

\* C30 witness: a list that is not in period order has been simulated and
\* analysed, and simulated again, and is what it was.
C30_Witness ==
    /\ SecondRunDone
    /\ tasks = first_tasks
    /\ Len(tasks) = 2
    /\ tasks[1].period > tasks[2].period
    /\ sorted_tasks # tasks
    /\ analysis_pc = "done"

---------------------------------------------------------------------------
(* Further properties of the analyses *)

\* C22: the iteration of a task starts from its execution time, and every
\* value computed for the task is at least the value before it, up to the
\* pass that converges or exceeds the deadline.
C22_IteratesNonDecreasing ==
    [][/\ (analysis_pc = "rta_for" /\ analysis_pc' = "rta_while") =>
             rta_r_new' = sorted_tasks[rta_i].execution_time
       /\ analysis_pc = "rta_while" =>
             /\ rta_r_old' = rta_r_new
             /\ rta_r_new' >= rta_r_new]_vars

\* C22 witness: the value of a task has grown in two passes in a row.
C22_Witness ==
    /\ analysis_pc = "rta_while"
    /\ rta_r_old > sorted_tasks[rta_i].execution_time
    /\ rta_r_new > rta_r_old

---------------------------------------------------------------------------
(* Properties of the scenarios *)

\* C23: scenario B under Rate Monotonic for one hyperperiod has a time
\* range of 70, and the finished run has a time unit in which the task
\* with period 14 executes and the violation flag is set.
C23_ScenarioB ==
    (tasks = ScenarioB /\ algorithm = "RM") =>
       /\ time_range = 70
       /\ t = time_range =>
             \E k \in 1..time_range :
                /\ execution_timeline[k] # NoTask
                /\ tasks[execution_timeline[k]].period = 14
                /\ deadline_violations[k]

\* C23 witness: the run of scenario B under Rate Monotonic has ended; the
\* fourth task ran in unit 17, which is flagged.
C23_Witness ==
    /\ tasks = ScenarioB
    /\ algorithm = "RM"
    /\ t = 70
    /\ execution_timeline[18] = 4
    /\ deadline_violations[18]

\* C24: for scenario A, which is in period order, response_time_analysis
\* returns True with the response times 2, 5 and 11.
C24_ScenarioA ==
    (tasks = ScenarioA /\ RtaReturned) =>
       /\ sorted_tasks = ScenarioA
       /\ schedulable_rta
       /\ rta_response_times = <<2, 5, 11>>

\* C24 witness: the analysis of scenario A has returned, with a third
\* response time of 11.
C24_Witness ==
    /\ tasks = ScenarioA
    /\ RtaReturned
    /\ Len(rta_response_times) = 3
    /\ rta_response_times[3] = 11

---------------------------------------------------------------------------
(* Boundary case: one task with execution_time = deadline = period *)

SingleFullTask ==
    /\ Len(tasks) = 1
    /\ tasks[1].execution_time = tasks[1].period
    /\ tasks[1].deadline = tasks[1].period

\* C25: a single task with execution_time = deadline = period runs in
\* every time unit simulated so far, under either policy and any cycle
\* count, and no unit is flagged.
C25_SingleTaskFillsTimeline ==
    SingleFullTask =>
       \A k \in 1..t :
          /\ execution_timeline[k] = 1
          /\ ~deadline_violations[k]

\* C25 witness: a task with period 2 has been simulated for at least two
\* hyperperiods.
C25_Witness ==
    /\ SingleFullTask
    /\ analysis_pc = "idle"
    /\ tasks[1].period = 2
    /\ lcm_cycles >= 2
    /\ t = time_range
    /\ execution_timeline[time_range] = 1

\* C26: for a single task with execution_time = deadline = period,
\* response_time_analysis returns True with the response time C, and
\* rate_monotonic_check_1 and rate_monotonic_check return True as well.
C26_SingleTaskSchedulable ==
    (AnalysisDone /\ SingleFullTask) =>
       /\ schedulable_rta
       /\ rta_response_times = <<tasks[1].execution_time>>
       /\ rta_response_times[1] = tasks[1].deadline
       /\ schedulable_deadline
       /\ schedulable_bound

\* C26 witness: the three analyses of a single task with period 2 have
\* returned.
C26_Witness ==
    /\ AnalysisDone
    /\ SingleFullTask
    /\ tasks[1].period = 2
    /\ rta_response_times = <<2>>

---------------------------------------------------------------------------
(* Execution accounting of the simulator *)

\* The instances of ready that are, with one unit of work less, among the
\* instances after.
ExecutedOf(ready, after) ==
    {e \in ready : [e EXCEPT !.remaining = e.remaining - 1] \in after}

\* Instance b of the list after the step is instance a before it.
SameInstance(a, b) == a.task = b.task /\ a.release_time = b.release_time

\* C27: in a time unit at most one instance executes; the work left of an
\* instance changes only if it executes, and then by one; it stays between
\* 0 and the execution time; an instance with no work left does not execute
\* (it leaves the list), and an instance leaves the list only with no work
\* left; no instance executes before its release.
C27_ExecutionAccounting ==
    [][t < time_range =>
         \A ready \in {ReadyInstances} :
         \A ran \in {ExecutedOf(ready, Range(active_tasks'))} :
            /\ Cardinality(ran) <= 1
            /\ \A e \in ran : /\ e.remaining > 0
                              /\ e.release_time <= t
                              /\ execution_timeline'[t + 1] = e.task
            /\ execution_timeline'[t + 1] # NoTask => ran # {}
            /\ \A e \in ready \ ran : e \in Range(active_tasks')
            /\ \A k \in 1..Len(active_tasks') :
                  /\ active_tasks'[k].remaining \in
                        0..tasks[active_tasks'[k].task].execution_time
                  /\ \/ active_tasks'[k] \in ready
                     \/ [active_tasks'[k] EXCEPT !.remaining = @ + 1] \in ran
            /\ \A a \in Range(active_tasks) :
                  a.remaining = 0 =>
                     \A k \in 1..Len(active_tasks') :
                        ~SameInstance(a, active_tasks'[k])]_vars

\* C27 witness: an instance that has executed a part of its work did not
\* run in the last unit, in which another task ran.
C27_Witness ==
    /\ t >= 2
    /\ \E a \in Range(active_tasks) :
         /\ a.remaining > 0
         /\ a.remaining < tasks[a.task].execution_time
         /\ execution_timeline[t] # a.task
         /\ execution_timeline[t] # NoTask

---------------------------------------------------------------------------
(* Termination of the simulation *)

\* The length of one hyperperiod of the task list.
Hyperperiod == TimeRange(tasks, 1)

\* The work the first n tasks release in one hyperperiod h.
RECURSIVE DemandOver(_, _)
DemandOver(n, h) ==
    IF n = 0 THEN 0
    ELSE DemandOver(n - 1, h) + (h \div tasks[n].period) * tasks[n].execution_time

Demand == DemandOver(Len(tasks), Hyperperiod)

\* More work is released in a hyperperiod than the hyperperiod has units.
Overloaded == Demand > Hyperperiod

\* The work left over all instances of the list.
RECURSIVE BacklogOf(_)
BacklogOf(active) ==
    IF active = <<>> THEN 0 ELSE Head(active).remaining + BacklogOf(Tail(active))

\* C31: the simulation runs to completion on every list of tasks with
\* positive integer fields, overloaded ones included.  Every step is one
\* iteration of the loop: it is taken with t < time_range, advances t by
\* one and keeps time_range and the length of both output lists, so the
\* loop body runs exactly time_range times and no index is out of range;
\* the step is never refused, so the end t = time_range is reached.  An
\* overloaded list shows in the work left only: after each whole
\* hyperperiod the work left is at least the excess of the demand over the
\* hyperperiod, times the number of hyperperiods run.
C31_RunsToCompletion ==
    /\ [][tasks # <<>> =>
             /\ t < time_range
             /\ t' = t + 1
             /\ time_range' = time_range
             /\ Len(execution_timeline') = time_range
             /\ Len(deadline_violations') = time_range
             /\ \A i \in TaskIds : tasks[i].period > 0
             /\ \A h \in {Hyperperiod} :
                   (Overloaded /\ t' % h = 0) =>
                      BacklogOf(active_tasks') >= (t' \div h) * (Demand - h)]_vars
    /\ (tasks # <<>>) ~> Done

\* C31 witness: an overloaded list has been simulated to the end of its
\* second hyperperiod or further; a unit is flagged and two or more
\* unfinished instances are left.
C31_Witness ==
    /\ tasks # <<>>
    /\ Overloaded
    /\ lcm_cycles >= 2
    /\ Done
    /\ AnyViolation
    /\ BacklogOf(active_tasks) >= 2
    /\ Cardinality({k \in 1..Len(active_tasks) : active_tasks[k].remaining > 0}) >= 2

---------------------------------------------------------------------------
(* Repetition of the schedule with the hyperperiod *)

\* The work released in the units before time.
RECURSIVE ReleasedWork(_, _)
ReleasedWork(n, time) ==
    IF n = 0 THEN 0
    ELSE ReleasedWork(n - 1, time) + tasks[n].execution_time * Ceil(time, tasks[n].period)

\* The units among the first `time` units in which some task ran.
BusyUnits(time) == Cardinality({k \in 1..time : execution_timeline[k] # NoTask})

\* No instance has work left at the end of unit h - 1, read off the
\* timeline: all the work released in the first hyperperiod ran in it.
NoCarryOver(h) == ReleasedWork(Len(tasks), h) = BusyUnits(h)

\* C32: the work left in the ready list is the work released less the units
\* run, so having no work left after the first hyperperiod can be read off
\* the timeline; and in a run of two or more cycles that has no work left at
\* the end of unit H - 1, every unit simulated past the first hyperperiod
\* holds the task (or idle) and the flag of the unit H before it.
C32_RepeatsWithHyperperiod ==
    \A h \in {Hyperperiod} :
       /\ BacklogOf(active_tasks) = ReleasedWork(Len(tasks), t) - BusyUnits(t)
       /\ (lcm_cycles >= 2 /\ t > h /\ NoCarryOver(h)) =>
             \A k \in 1..(t - h) :
                /\ execution_timeline[k + h] = execution_timeline[k]
                /\ deadline_violations[k + h] = deadline_violations[k]

\* C32 witness: a run of two tasks over three hyperperiods of two units is
\* done; nothing was carried over, both tasks ran in each hyperperiod and
\* the second unit of each is flagged.
C32_Witness ==
    /\ Done
    /\ lcm_cycles = 3
    /\ Hyperperiod = 2
    /\ NoCarryOver(Hyperperiod)
    /\ execution_timeline[1] # execution_timeline[2]
    /\ execution_timeline[5] # NoTask
    /\ execution_timeline[6] # NoTask
    /\ ~deadline_violations[5]
    /\ deadline_violations[6]
====
